---- MODULE Spec2Model ----
(***************************************************************************)
(* Model of the screen state machine of LedgerStyleSimulator               *)
(* (src/unnamed/part_000): the React state powered / screen / toast, the   *)
(* handlers left, right, confirm, back, the power toggle, the Settings     *)
(* shortcut and the three kinds of setTimeout callbacks.                   *)
(***************************************************************************)
EXTENDS Integers, Sequences, FiniteSets, TLC

VARIABLES
  powered,      \* useState(true)
  screen,       \* useState<Screen>({ id: "SPLASH" }), a record tagged by id
  toast,        \* useState<string | null>(null)
  timers,       \* pending setTimeout callbacks of showToast / PIN success
  splashTimer,  \* the splash effect's timeout is pending
  pinFlow,      \* progress along PinScript
  pinFlowOne,   \* progress along PinScriptOne
  navFlow,      \* progress along NavScript
  offFlow,      \* progress along OffScript
  backFlow,     \* progress along BackScript
  noInput,      \* no input event has been taken yet
  noOpFlow,     \* progress along NoOpScript
  gapFlow,      \* progress along GapScript
  locked,       \* the screen became Lock and its pin has not equalled PIN since
  hash,         \* the call of pseudoHash under way or last returned, and the seed
  derived       \* per app, its first address and how often it was evaluated

vars == <<powered, screen, toast, timers, splashTimer,
          pinFlow, pinFlowOne, navFlow, offFlow, backFlow, noInput, noOpFlow,
          gapFlow, locked, hash, derived>>

\* ---- Bounds ---------------------------------------------------------------
MaxTimers == 3     \* pending showToast / PIN-success timeouts
MaxLen == 80       \* largest requested length of a pseudoHash call

\* ---- Utilities ------------------------------------------------------------
Max(a, b) == IF a >= b THEN a ELSE b
Min(a, b) == IF a <= b THEN a ELSE b

\* a clamp whose upper limit is off by one
clampOffByOne(n, min, max) == Max(min, Min(max + 1, n))

clamp(n, min, max) == Max(min, Min(max, n))

\* ---- Deterministic address generator (pseudoHash) ---------------------------
\* Strings are sequences of one-character strings.  A 32-bit value is a pair
\* <<hi, lo>> of 16-bit halves, so that no intermediate value leaves the
\* integers of the model checker.
Chars ==
  <<"0", "1", "2", "3", "4", "5", "6", "7", "8", "9", "a", "b", "c", "d",
  "e", "f", "g", "h", "i", "j", "k", "l", "m", "n", "o", "p", "q", "r", "s",
  "t", "u", "v", "w", "x", "y", "z", "-", ":", "=">>
CharCodes ==
  <<48, 49, 50, 51, 52, 53, 54, 55, 56, 57, 97, 98, 99, 100, 101, 102, 103,
  104, 105, 106, 107, 108, 109, 110, 111, 112, 113, 114, 115, 116, 117, 118,
  119, 120, 121, 122, 45, 58, 61>>

\* ch.charCodeAt(0)
charCodeAt(ch) == CharCodes[CHOOSE i \in 1..Len(Chars) : Chars[i] = ch]

B16 == 65536

RECURSIVE XorBits(_, _, _)
XorBits(a, b, n) ==
  IF n = 0 THEN 0
  ELSE (((a % 2) + (b % 2)) % 2) + 2 * XorBits(a \div 2, b \div 2, n - 1)

\* x ^ y on 32-bit patterns
Xor32(x, y) == <<XorBits(x[1], y[1], 16), XorBits(x[2], y[2], 16)>>

\* (x + y) modulo 2^32
Add32(x, y) ==
  LET lo == x[2] + y[2]
      hi == x[1] + y[1] + (lo \div B16)
  IN  <<hi % B16, lo % B16>>

\* (-x) modulo 2^32
Neg32(x) ==
  IF x = <<0, 0>> THEN x
  ELSE IF x[2] = 0 THEN <<B16 - x[1], 0>>
  ELSE <<B16 - 1 - x[1], B16 - x[2]>>

\* the pattern of (x << 5)
Shl5(x) ==
  LET lo == x[2] * 32
  IN  <<(x[1] * 32 + (lo \div B16)) % B16, lo % B16>>

\* the pattern of (x >> 2), the sign-propagating shift of the int32 x
Sar2(x) ==
  <<(x[1] \div 4) + (IF x[1] >= 32768 THEN 49152 ELSE 0),
    (x[2] \div 4) + (x[1] % 4) * 16384>>

\* (x * 0x01000193) >>> 0 for the int32 x: the product is a double, rounded to
\* 53 significant bits (ties to even) before its low 32 bits are taken
MulPrime(x) ==
  LET neg == x[1] >= 32768
      mag == IF neg THEN Neg32(x) ELSE x
      a == IF neg /\ mag = <<0, 0>> THEN B16 ELSE mag[1]
      b == mag[2]
      \* |x| * (2^24 + 403) in limbs of 16 bits, p0 the lowest
      t0 == b * 403
      p0 == t0 % B16
      t1 == a * 403 + b * 256 + (t0 \div B16)
      p1 == t1 % B16
      t2 == a * 256 + (t1 \div B16)
      p3 == t2 \div B16
      \* bits dropped by the rounding: the product has 53 + k bits
      q == IF p3 >= 128 THEN 8 ELSE IF p3 >= 64 THEN 4 ELSE IF p3 >= 32 THEN 2 ELSE 1
      r == p0 % q
      up == q > 1 /\ (2 * r > q \/ (2 * r = q /\ (p0 \div q) % 2 = 1))
      rl == p0 - r + (IF up THEN q ELSE 0)
      low == <<(p1 + (rl \div B16)) % B16, rl % B16>>
  IN  IF neg THEN Neg32(low) ELSE low

\* A number of the output stage: sign and magnitude hi * 2^16 + lo, hi not
\* limited to 16 bits (h1++ may pass 2^32 - 1, h2-- may pass below 0)
Num(w) == [neg |-> FALSE, hi |-> w[1], lo |-> w[2]]
MagInc(n) ==
  IF n.lo = B16 - 1 THEN [n EXCEPT !.hi = n.hi + 1, !.lo = 0]
  ELSE [n EXCEPT !.lo = n.lo + 1]
MagDec(n) ==
  IF n.lo = 0 THEN [n EXCEPT !.hi = n.hi - 1, !.lo = B16 - 1]
  ELSE [n EXCEPT !.lo = n.lo - 1]
IsZero(n) == n.hi = 0 /\ n.lo = 0
\* h + 1 and h - 1
Incr(n) ==
  IF n.neg THEN (LET m == MagDec(n) IN IF IsZero(m) THEN [m EXCEPT !.neg = FALSE] ELSE m)
  ELSE MagInc(n)
Decr(n) ==
  IF n.neg THEN MagInc(n)
  ELSE IF IsZero(n) THEN [neg |-> TRUE, hi |-> 0, lo |-> 1]
  ELSE MagDec(n)

RECURSIVE HexDigits(_)
HexDigits(v) ==
  IF v < 16 THEN <<Chars[v + 1]>>
  ELSE HexDigits(v \div 16) \o <<Chars[(v % 16) + 1]>>

\* h.toString(16)
toString16(n) ==
  LET low == HexDigits(n.lo)
      mag == IF n.hi = 0 THEN low
             ELSE HexDigits(n.hi) \o [i \in 1..(4 - Len(low)) |-> "0"] \o low
  IN  (IF n.neg THEN <<"-">> ELSE <<>>) \o mag

\* slice(-8) of a string
Last8(t) == IF Len(t) <= 8 THEN t ELSE SubSeq(t, Len(t) - 7, Len(t))

\* hex(h) of line 29
hex(n) == Last8([i \in 1..8 |-> "0"] \o toString16(n))

H1Init == <<33052, 40389>>   \* 0x811c9dc5
H2Init == <<1117, 40763>>    \* 0x45d9f3b

\* out.slice(0, len), len >= 0
slice0(out, len) == SubSeq(out, 1, Min(len, Len(out)))

\* ---- String helpers used by the PIN entry -----------------------------------
DigitChars == <<"0", "1", "2", "3", "4", "5", "6", "7", "8", "9">>
NaN == -1

\* String(n) for n in 0..9
String(n) == DigitChars[n + 1]

\* Number(ch) for a one-character string: its digit, NaN for anything else
Number(ch) ==
  IF \E d \in 0..9 : DigitChars[d + 1] = ch
  THEN CHOOSE d \in 0..9 : DigitChars[d + 1] = ch
  ELSE NaN

\* (x || 0) on numbers: NaN and 0 are falsy
OrZero(x) == IF x = NaN \/ x = 0 THEN 0 ELSE x

\* s.padEnd(n, ch), s a sequence of one-character strings
padEnd(s, n, ch) ==
  IF Len(s) >= n THEN s ELSE s \o [i \in 1..(n - Len(s)) |-> ch]

\* s.replaceAll(ch, "")
replaceAll(s, ch) == SelectSeq(s, LAMBDA c : c # ch)

PIN == <<"1", "2", "3", "4">>
Null == "null"

\* ---- Catalogues -----------------------------------------------------------
apps == <<
  [key |-> "btc", name |-> "Bitcoin",  currency |-> "BTC", decimals |-> 8],
  [key |-> "eth", name |-> "Ethereum", currency |-> "ETH", decimals |-> 18],
  [key |-> "sol", name |-> "Solana",   currency |-> "SOL", decimals |-> 9] >>

\* the literal prefix, the tag and the generated length of apps[i].address
addressPrefix == <<<<"b", "c", "1">>, <<"0", "x">>, <<>>>>
addressTag == <<<<":", "b", "t", "c">>, <<":", "e", "t", "h">>, <<":", "s", "o", "l">>>>
addressLen == <<36, 40, 44>>

txSteps == <<"Review", "Network", "To", "Amount", "Max Fee", "Hold both">>

settingsMenu ==
  <<"Brightness", "About", "Lock", IF powered THEN "Power Off" ELSE "Power On">>

\* ---- Screen values --------------------------------------------------------
Splash == [id |-> "SPLASH"]
Home == [id |-> "HOME"]
Lock(pin, cursor) == [id |-> "LOCK", pin |-> pin, cursor |-> cursor]
Apps(index) == [id |-> "APPS", index |-> index]
Address(app) == [id |-> "ADDRESS", app |-> app]
TxReview(app, step) == [id |-> "TX_REVIEW", app |-> app, step |-> step]
Settings(index) == [id |-> "SETTINGS", index |-> index]

\* approved is an optional field: absent (undefined) until the approval
approved(s) == "approved" \in DOMAIN s /\ s.approved
WithApproved(s) ==
  [f \in DOMAIN s \cup {"approved"} |-> IF f = "approved" THEN TRUE ELSE s[f]]

\* ---- Scenario scripts (sequences of input events) ---------------------------
\* pinFlow, pinFlowOne, navFlow, offFlow and backFlow are history variables: they
\* record how far the inputs taken so far follow a script, and no handler reads
\* them.  noInput records that only timeouts have fired so far.
\* confirm at cursor 0, then right and confirm for each further slot
PinScriptOne ==
  <<"confirm", "right", "confirm", "right", "confirm", "right", "confirm">>

\* 1, 2, 3 and 4 confirms at the cursor positions 0, 1, 2 and 3
PinScript ==
  <<"confirm",
    "right", "confirm", "confirm",
    "right", "confirm", "confirm", "confirm",
    "right", "confirm", "confirm", "confirm", "confirm">>

\* from Home: confirm, right, confirm, confirm, then Len(txSteps) confirms,
\* then back and confirm
NavScript ==
  <<"confirm", "right", "confirm", "confirm">> \o
  [i \in 1..Len(txSteps) |-> "confirm"] \o <<"back", "confirm">>

\* from Home: to Apps{1}, power off, the four inputs, power on
OffScript ==
  <<"confirm", "right", "togglePower",
    "left", "right", "confirm", "back", "togglePower">>

\* from Home: to Address{apps[2]}, back, back, Settings shortcut, right, back
BackScript ==
  <<"confirm", "right", "right", "confirm", "back", "back",
    "onSettings", "right", "back">>

\* from Splash: the inputs without a handler on Splash, Lock, Home and Address,
\* passing from Lock to Home by the Settings button and back
NoOpScript ==
  <<"left", "right", "confirm", "back", "splashTimeout", "back",
    "onSettings", "back", "left", "right", "back", "confirm", "confirm",
    "left", "right">>

\* from Lock{"", 0}: two confirms with the cursor beyond the end of the pin
GapScript == <<"right", "right", "confirm", "confirm">>

\* Progress m along script after event ev; start tells whether ev was taken in
\* the script's first state.  A toast timeout is no input event: it leaves a
\* script under way where it is.  Any other event off the script abandons it.
Monitor(script, start, m, ev) ==
  IF ev = "toastTimeout" /\ m < Len(script) THEN m
  ELSE IF m > 0 /\ m < Len(script) /\ script[m + 1] = ev THEN m + 1
  ELSE IF start /\ script[1] = ev THEN 1
  ELSE 0

Observe(ev) ==
  /\ pinFlow' = Monitor(PinScript, powered /\ screen = Lock(<<>>, 0), pinFlow, ev)
  /\ pinFlowOne' =
       Monitor(PinScriptOne, powered /\ screen = Lock(<<>>, 0), pinFlowOne, ev)
  /\ navFlow' = Monitor(NavScript, powered /\ screen = Home, navFlow, ev)
  /\ offFlow' = Monitor(OffScript, powered /\ screen = Home, offFlow, ev)
  /\ backFlow' = Monitor(BackScript, powered /\ screen = Home, backFlow, ev)
  /\ noInput' = (noInput /\ ev \in {"splashTimeout", "homeTimeout", "toastTimeout"})
  /\ noOpFlow' = Monitor(NoOpScript, powered /\ screen = Splash, noOpFlow, ev)
  /\ gapFlow' = Monitor(GapScript, powered /\ screen = Lock(<<>>, 0), gapFlow, ev)
  /\ locked' = IF screen'.id # "LOCK" THEN locked
               ELSE IF screen.id # "LOCK" THEN screen'.pin # PIN
               ELSE locked /\ screen'.pin # PIN
  /\ UNCHANGED <<hash, derived>>

\* ---- Effects and helpers of the component ------------------------------------
\* the effect without a cleanup on the render that leaves SPLASH
SplashEffectLateCleanup ==
  splashTimer' = (splashTimer /\ screen.id = "SPLASH" /\ screen'.id # "LOCK")

\* useEffect([screen.id]): the splash timeout is started on SPLASH and cleared
\* by the effect's cleanup as soon as screen.id changes
SplashEffect ==
  splashTimer' = IF screen'.id = "SPLASH"
                 THEN (IF screen.id = "SPLASH" THEN splashTimer ELSE TRUE)
                 ELSE FALSE

\* showToast(msg): the timers after scheduling the clear (1500ms)
showToast(ts) == Append(ts, "toast")

\* ---- left / right ------------------------------------------------------------
\* left on TX_REVIEW building a fresh screen instead of spreading the old one
leftOfDropsFields(s) ==
  IF s.id = "APPS" THEN [s EXCEPT !.index = clamp(s.index - 1, 0, Len(apps) - 1)]
  ELSE IF s.id = "TX_REVIEW"
    THEN TxReview(s.app, clamp(s.step - 1, 0, Len(txSteps) - 1))
  ELSE IF s.id = "SETTINGS"
    THEN [s EXCEPT !.index = clamp(s.index - 1, 0, Len(settingsMenu) - 1)]
  ELSE IF s.id = "LOCK" THEN [s EXCEPT !.cursor = clamp(s.cursor - 1, 0, 3)]
  ELSE s

leftOf(s) ==
  IF s.id = "APPS" THEN [s EXCEPT !.index = clamp(s.index - 1, 0, Len(apps) - 1)]
  ELSE IF s.id = "TX_REVIEW"
    THEN [s EXCEPT !.step = clamp(s.step - 1, 0, Len(txSteps) - 1)]
  ELSE IF s.id = "SETTINGS"
    THEN [s EXCEPT !.index = clamp(s.index - 1, 0, Len(settingsMenu) - 1)]
  ELSE IF s.id = "LOCK" THEN [s EXCEPT !.cursor = clamp(s.cursor - 1, 0, 3)]
  ELSE s

\* right wrapping around on APPS instead of clamping
rightOfWraps(s) ==
  IF s.id = "APPS" THEN [s EXCEPT !.index = (s.index + 1) % Len(apps)]
  ELSE IF s.id = "TX_REVIEW"
    THEN [s EXCEPT !.step = clamp(s.step + 1, 0, Len(txSteps) - 1)]
  ELSE IF s.id = "SETTINGS"
    THEN [s EXCEPT !.index = clamp(s.index + 1, 0, Len(settingsMenu) - 1)]
  ELSE IF s.id = "LOCK" THEN [s EXCEPT !.cursor = clamp(s.cursor + 1, 0, 3)]
  ELSE s

rightOf(s) ==
  IF s.id = "APPS" THEN [s EXCEPT !.index = clamp(s.index + 1, 0, Len(apps) - 1)]
  ELSE IF s.id = "TX_REVIEW"
    THEN [s EXCEPT !.step = clamp(s.step + 1, 0, Len(txSteps) - 1)]
  ELSE IF s.id = "SETTINGS"
    THEN [s EXCEPT !.index = clamp(s.index + 1, 0, Len(settingsMenu) - 1)]
  ELSE IF s.id = "LOCK" THEN [s EXCEPT !.cursor = clamp(s.cursor + 1, 0, 3)]
  ELSE s

\* left without its powered guard
leftUnguarded ==
  /\ screen' = leftOf(screen)
  /\ UNCHANGED <<powered, toast, timers>>
  /\ SplashEffect
  /\ Observe("left")

left ==
  /\ screen' = IF ~powered THEN screen ELSE leftOf(screen)
  /\ UNCHANGED <<powered, toast, timers>>
  /\ SplashEffect
  /\ Observe("left")

right ==
  /\ screen' = IF ~powered THEN screen ELSE rightOf(screen)
  /\ UNCHANGED <<powered, toast, timers>>
  /\ SplashEffect
  /\ Observe("right")

\* ---- confirm -----------------------------------------------------------------
\* the digit capped at 9 instead of wrapping
committedPinNoWrap(pin, cursor) ==
  LET nextPin == padEnd(pin, 4, "_")
      next == [nextPin EXCEPT
                 ![cursor + 1] = String(Min(OrZero(Number(nextPin[cursor + 1])) + 1, 9))]
  IN  replaceAll(next, "_")

\* the pin committed with its placeholders left in
committedPinPadded(pin, cursor) ==
  LET nextPin == padEnd(pin, 4, "_")
  IN  [nextPin EXCEPT
         ![cursor + 1] = String((OrZero(Number(nextPin[cursor + 1])) + 1) % 10)]

\* the pin committed by a confirm on LOCK (lines 161-164)
committedPin(pin, cursor) ==
  LET nextPin == padEnd(pin, 4, "_")
      next == [nextPin EXCEPT
                 ![cursor + 1] = String((OrZero(Number(nextPin[cursor + 1])) + 1) % 10)]
  IN  replaceAll(next, "_")

\* the message with the comparison never succeeding
pinToastNeverOK(committed) == "Wrong PIN"

\* the message with the comparison always succeeding
pinToastAlwaysOK(committed) == "PIN OK"

\* the message of line 166 for a committed pin of length 4
pinToast(committed) == IF committed = PIN THEN "PIN OK" ELSE "Wrong PIN"

confirmLock ==
  IF screen.pin = PIN
  THEN /\ screen' = Home
       /\ UNCHANGED <<powered, toast, timers>>
  ELSE LET committed == committedPin(screen.pin, screen.cursor)
       IN  /\ screen' = Lock(committed, screen.cursor)
           /\ toast' = IF Len(committed) = 4 THEN pinToast(committed) ELSE toast
           \* the 300ms timeout is due before the 1500ms one of the same confirm
           /\ timers' =
                (IF committed = PIN THEN timers \o <<"home">> ELSE timers) \o
                (IF Len(committed) = 4 THEN <<"toast">> ELSE <<>>)
           /\ Len(timers') <= MaxTimers
           /\ UNCHANGED powered

\* approval one step early (step < txSteps.length - 2)
confirmTxEarly(s) ==
  IF s.step < Len(txSteps) - 2 THEN [s EXCEPT !.step = s.step + 1]
  ELSE WithApproved(s)

\* approval by a confirm on any step
confirmTxAtOnce(s) == WithApproved(s)

confirmTx(s) ==
  IF s.step < Len(txSteps) - 1 THEN [s EXCEPT !.step = s.step + 1]
  ELSE WithApproved(s)

\* the actions of Brightness and About bound to each other's entry
confirmSettingsSwapped ==
  CASE screen.index = 0 ->
         /\ toast' = "v1.0 demo"
         /\ timers' = showToast(timers)
         /\ Len(timers') <= MaxTimers
         /\ UNCHANGED <<powered, screen>>
    [] screen.index = 1 ->
         /\ toast' = "Max"
         /\ timers' = showToast(timers)
         /\ Len(timers') <= MaxTimers
         /\ UNCHANGED <<powered, screen>>
    [] screen.index = 2 ->
         /\ screen' = Lock(<<>>, 0)
         /\ UNCHANGED <<powered, toast, timers>>
    [] screen.index = 3 ->
         /\ powered' = ~powered
         /\ UNCHANGED <<screen, toast, timers>>

\* settingsMenu[screen.index].action
confirmSettings ==
  CASE screen.index = 0 ->
         /\ toast' = "Max"
         /\ timers' = showToast(timers)
         /\ Len(timers') <= MaxTimers
         /\ UNCHANGED <<powered, screen>>
    [] screen.index = 1 ->
         /\ toast' = "v1.0 demo"
         /\ timers' = showToast(timers)
         /\ Len(timers') <= MaxTimers
         /\ UNCHANGED <<powered, screen>>
    [] screen.index = 2 ->
         /\ screen' = Lock(<<>>, 0)
         /\ UNCHANGED <<powered, toast, timers>>
    [] screen.index = 3 ->
         /\ powered' = ~powered
         /\ UNCHANGED <<screen, toast, timers>>

confirm ==
  /\ IF ~powered THEN UNCHANGED <<powered, screen, toast, timers>>
     ELSE IF screen.id = "LOCK" THEN confirmLock
     ELSE IF screen.id = "SETTINGS" THEN confirmSettings
     ELSE /\ screen' =
               IF screen.id = "HOME" THEN Apps(0)
               ELSE IF screen.id = "APPS" THEN Address(apps[screen.index + 1])
               ELSE IF screen.id = "ADDRESS" THEN TxReview(screen.app, 0)
               ELSE IF screen.id = "TX_REVIEW" THEN confirmTx(screen)
               ELSE screen
          /\ UNCHANGED <<powered, toast, timers>>
  /\ SplashEffect
  /\ Observe("confirm")

\* ---- back --------------------------------------------------------------------
\* back from TX_REVIEW by { ...screen, id: "ADDRESS" }
backOfSpread(s) ==
  IF s.id = "APPS" \/ s.id = "SETTINGS" THEN Home
  ELSE IF s.id = "ADDRESS" THEN Apps(0)
  ELSE IF s.id = "TX_REVIEW" THEN [s EXCEPT !.id = "ADDRESS"]
  ELSE s

\* back from ADDRESS to the index of the app shown
backOfKeepsIndex(s) ==
  IF s.id = "APPS" \/ s.id = "SETTINGS" THEN Home
  ELSE IF s.id = "ADDRESS"
    THEN Apps((CHOOSE i \in 1..Len(apps) : apps[i] = s.app) - 1)
  ELSE IF s.id = "TX_REVIEW" THEN Address(s.app)
  ELSE s

\* back with the lock screen left for Home
backOfLeavesLock(s) ==
  IF s.id = "APPS" \/ s.id = "SETTINGS" \/ s.id = "LOCK" THEN Home
  ELSE IF s.id = "ADDRESS" THEN Apps(0)
  ELSE IF s.id = "TX_REVIEW" THEN Address(s.app)
  ELSE s

backOf(s) ==
  IF s.id = "APPS" \/ s.id = "SETTINGS" THEN Home
  ELSE IF s.id = "ADDRESS" THEN Apps(0)
  ELSE IF s.id = "TX_REVIEW" THEN Address(s.app)
  ELSE s

back ==
  /\ screen' = IF ~powered THEN screen ELSE backOf(screen)
  /\ UNCHANGED <<powered, toast, timers>>
  /\ SplashEffect
  /\ Observe("back")

\* ---- power toggle and Settings shortcut -----------------------------------------
\* key "p" (setPowered(v => !v)) and the power button (setPowered(!powered))
togglePower ==
  /\ powered' = ~powered
  /\ UNCHANGED <<screen, toast, timers>>
  /\ SplashEffect
  /\ Observe("togglePower")

\* the Settings button of the device body; Home's onSettings does the same
onSettings ==
  /\ screen' = Settings(0)
  /\ UNCHANGED <<powered, toast, timers>>
  /\ SplashEffect
  /\ Observe("onSettings")

\* ---- timeouts ------------------------------------------------------------------
\* setTimeout(() => setScreen({ id: "LOCK", pin: "", cursor: 0 }), 800)
splashTimeout ==
  /\ splashTimer
  /\ screen' = Lock(<<>>, 0)
  /\ UNCHANGED <<powered, toast, timers>>
  /\ SplashEffect
  /\ Observe("splashTimeout")

\* timers holds the pending timeouts ordered by due time as far as the code
\* fixes it: equal delays fire in scheduling order, and a 300ms timeout
\* scheduled no later than a 1500ms one fires before it.
RemoveAt(ts, i) == SubSeq(ts, 1, i - 1) \o SubSeq(ts, i + 1, Len(ts))

\* setTimeout(() => setScreen({ id: "HOME" }), 300): the oldest one fires
homeTimeout ==
  /\ \E i \in 1..Len(timers) :
       /\ timers[i] = "home"
       /\ \A j \in 1..(i - 1) : timers[j] # "home"
       /\ timers' = RemoveAt(timers, i)
  /\ screen' = Home
  /\ UNCHANGED <<powered, toast>>
  /\ SplashEffect
  /\ Observe("homeTimeout")

\* setTimeout(() => setToast(null), 1500): fires when nothing is due before it
toastTimeout ==
  /\ Len(timers) > 0 /\ timers[1] = "toast"
  /\ timers' = Tail(timers)
  /\ toast' = Null
  /\ UNCHANGED <<powered, screen>>
  /\ SplashEffect
  /\ Observe("toastTimeout")

\* ---- Specification ---------------------------------------------------------------
\* no address has been evaluated
NoneDerived == [i \in 1..Len(apps) |-> [first |-> <<>>, n |-> 0]]

\* no call of the generator is modelled
NoCall ==
  [fn |-> Null, input |-> <<>>, len |-> 0, i |-> 0, h1 |-> Num(<<0, 0>>),
   h2 |-> Num(<<0, 0>>), out |-> <<>>, pc |-> "idle", seed |-> <<>>]

DeviceInit ==
  /\ powered = TRUE
  /\ screen = Splash
  /\ toast = Null
  /\ timers = <<>>
  /\ splashTimer = TRUE
  /\ pinFlow = 0
  /\ pinFlowOne = 0
  /\ navFlow = 0
  /\ offFlow = 0
  /\ backFlow = 0
  /\ noInput = TRUE
  /\ noOpFlow = 0
  /\ gapFlow = 0
  /\ locked = FALSE

\* the handlers never read the seed: Spec leaves the generator aside
Init ==
  /\ DeviceInit
  /\ hash = NoCall
  /\ derived = NoneDerived

Next ==
  \/ left
  \/ right
  \/ confirm
  \/ back
  \/ togglePower
  \/ onSettings
  \/ splashTimeout
  \/ homeTimeout
  \/ toastTimeout

Spec == Init /\ [][Next]_vars

\* ---- Calls of the address generator ---------------------------------------------
\* pseudoHash runs one loop round at a time on its locals, kept in hash; one
\* call is under way at a time.  The device state is left alone.
Device == <<powered, screen, toast, timers, splashTimer,
            pinFlow, pinFlowOne, navFlow, offFlow, backFlow, noInput, noOpFlow,
            gapFlow, locked>>

DemoSeed == <<"d", "e", "m", "o", "-", "s", "e", "e", "d">>
DefaultLen == 40

HashInputs == {
  <<>>, <<"a">>, <<"0">>, <<"z", "z">>, DemoSeed,
  <<"h", "m", "n", "k", "b", "4", "=">>,
  <<"b", "k", "x", "n", "d", "0">>,
  <<"e", "j", "j", "z", "e", "6">> }

HashLens == {0, 1, 8, 16, 17, 31, 36, DefaultLen, 44, MaxLen}

\* entry of pseudoHash(input, len) on behalf of fn: the locals of lines 22, 23, 30
enter(h, fn, input, len) ==
  [h EXCEPT !.fn = fn, !.input = input, !.len = len, !.i = 0,
            !.h1 = Num(H1Init), !.h2 = Num(H2Init), !.out = <<>>, !.pc = "run"]

\* a direct call pseudoHash(input, len)
pseudoHashCall ==
  /\ hash.pc = "done"
  /\ \E input \in HashInputs, len \in HashLens :
       hash' = enter(hash, "pseudoHash", input, len)
  /\ UNCHANGED <<Device, derived>>

\* apps[i].address(seed) (line 385, line 202) calls pseudoHash(seed + tag, len)
addressCall ==
  /\ hash.pc = "done"
  /\ \E i \in 1..Len(apps) :
       hash' = enter(hash, apps[i].key, hash.seed \o addressTag[i], addressLen[i])
  /\ UNCHANGED <<Device, derived>>

\* one round of the for loop (lines 23-28)
pseudoHashRound ==
  /\ hash.pc = "run" /\ hash.i < Len(hash.input)
  /\ \E c \in {charCodeAt(hash.input[hash.i + 1])} :
     \E x \in {Xor32(<<hash.h1.hi, hash.h1.lo>>, <<0, c>>)} :
     \E h2 \in {<<hash.h2.hi, hash.h2.lo>>} :
     \E sum \in {Add32(Add32(Shl5(h2), Sar2(h2)), <<0, c>>)} :
       hash' = [hash EXCEPT !.h1 = Num(MulPrime(x)),
                            !.h2 = Num(Xor32(h2, sum)),
                            !.i = @ + 1]
  /\ UNCHANGED <<Device, derived>>

\* one round of the while loop (line 31)
pseudoHashEmit ==
  /\ hash.pc = "run" /\ hash.i = Len(hash.input) /\ Len(hash.out) < hash.len
  /\ hash' = [hash EXCEPT !.out = @ \o hex(hash.h1) \o hex(hash.h2),
                          !.h1 = Incr(@), !.h2 = Decr(@)]
  /\ UNCHANGED <<Device, derived>>

\* an address that loses its prefix while the device is powered off
resultOfUnpowered(h) ==
  LET ret == slice0(h.out, h.len)
  IN  IF h.fn \in {"seed", "pseudoHash"} \/ ~powered THEN ret
      ELSE addressPrefix[CHOOSE i \in 1..Len(apps) : apps[i].key = h.fn] \o ret

\* what the caller makes of the string returned by line 32
resultOf(h) ==
  LET ret == slice0(h.out, h.len)
  IN  IF h.fn \in {"seed", "pseudoHash"} THEN ret
      ELSE addressPrefix[CHOOSE i \in 1..Len(apps) : apps[i].key = h.fn] \o ret

\* return out.slice(0, len): the locals are gone, the result is kept in out
pseudoHashReturn ==
  /\ hash.pc = "run" /\ hash.i = Len(hash.input) /\ Len(hash.out) >= hash.len
  /\ hash' = [hash EXCEPT !.out = resultOf(hash), !.pc = "done", !.i = 0,
                          !.h1 = Num(<<0, 0>>), !.h2 = Num(<<0, 0>>),
                          !.seed = IF hash.fn = "seed" THEN resultOf(hash) ELSE @]
  /\ derived' =
       [i \in 1..Len(apps) |->
          IF apps[i].key # hash.fn THEN derived[i]
          ELSE [first |-> IF derived[i].n = 0 THEN resultOf(hash) ELSE derived[i].first,
                n |-> Min(derived[i].n + 1, 2)]]
  /\ UNCHANGED Device

\* useState(() => pseudoHash("demo-seed")) is being evaluated
HashInit ==
  /\ DeviceInit
  /\ hash = enter(NoCall, "seed", DemoSeed, DefaultLen)
  /\ derived = NoneDerived

\* the calls, with the power button and the Settings button pressed in between
HashNext ==
  \/ pseudoHashCall
  \/ addressCall
  \/ pseudoHashRound
  \/ pseudoHashEmit
  \/ pseudoHashReturn
  \/ togglePower
  \/ onSettings

HashSpec == HashInit /\ [][HashNext]_vars

\* ---- Fairness: a pending timeout fires ------------------------------------------
FairSpec ==
  Spec /\ WF_vars(splashTimeout) /\ WF_vars(homeTimeout) /\ WF_vars(toastTimeout)

\* ---- Properties ------------------------------------------------------------------
\* C1: in every reachable state the bounded field of the active screen is in
\* range: Lock.cursor in 0..3, Apps.index in 0..2, TxReview.step in 0..5,
\* Settings.index in 0..3.
BoundedFieldInRange ==
  /\ screen.id = "LOCK" => screen.cursor \in 0..3
  /\ screen.id = "APPS" => screen.index \in 0..2
  /\ screen.id = "TX_REVIEW" => screen.step \in 0..5
  /\ screen.id = "SETTINGS" => screen.index \in 0..3

\* right has driven a bounded field to its upper end
AtUpperEnd ==
  \/ screen.id = "LOCK" /\ screen.cursor = 3
  \/ screen.id = "APPS" /\ screen.index = 2

\* C2: while powered=false, left, right, confirm and back leave screen and
\* powered unchanged; togglePower is enabled in every state, flips powered and
\* leaves screen unchanged.
PoweredOffFrame ==
  /\ [](ENABLED togglePower)
  /\ [][/\ (~powered /\ (left \/ right \/ confirm \/ back))
             => (screen' = screen /\ powered' = powered)
        /\ togglePower => (powered' = ~powered /\ screen' = screen)]_vars

\* the four inputs were taken on Apps{1} while powered off, then power restored
PoweredOffInputsTaken ==
  offFlow = Len(OffScript) /\ powered /\ screen = Apps(1)

\* C3 as stated: four confirms, one at each of the cursor positions 0, 1, 2, 3,
\* commit the pin "1234" with a "PIN OK" toast.
OneConfirmPerSlotUnlocks ==
  pinFlowOne = Len(PinScriptOne) =>
    (screen.id = "LOCK" /\ screen.pin = PIN /\ toast = "PIN OK")

\* C3 (amended): from Lock{pin:"", cursor:0}, powered, 1, 2, 3 and 4 confirms at
\* the cursor positions 0, 1, 2 and 3 commit the pin "1234" with a "PIN OK"
\* toast and a pending timeout; that timeout sets the screen to Home, and Home
\* is reached.
PinSuccessFlow ==
  /\ [](pinFlow = Len(PinScript) =>
          (screen = Lock(PIN, 3) /\ toast = "PIN OK" /\
           \E i \in 1..Len(timers) : timers[i] = "home"))
  /\ [][homeTimeout => screen' = Home]_vars
  /\ (pinFlow = Len(PinScript)) ~> (screen = Home)

\* the ten confirms of PinScript have just been taken
PinScriptTaken == pinFlow = Len(PinScript)

\* number of pending PIN-success timeouts
HomeTimers(ts) == Len(SelectSeq(ts, LAMBDA t : t = "home"))

\* C4: a confirm on Lock that commits a pin of length 4 other than "1234" sets
\* the toast to "Wrong PIN", stays on Lock with that pin and the same cursor,
\* and schedules no transition to Home.
WrongPinStaysLocked ==
  [][LET c == committedPin(screen.pin, screen.cursor)
     IN  (powered /\ screen.id = "LOCK" /\ screen.pin # PIN /\ confirm
            /\ Len(c) = 4 /\ c # PIN)
         => (/\ toast' = "Wrong PIN"
             /\ screen' = Lock(c, screen.cursor)
             /\ HomeTimers(timers') = HomeTimers(timers))]_vars

\* a wrong pin of length 4 is shown with its toast, nothing scheduled for Home
WrongPinShown ==
  /\ screen.id = "LOCK" /\ Len(screen.pin) = 4 /\ screen.pin # PIN
  /\ toast = "Wrong PIN"
  /\ HomeTimers(timers) = 0

\* C5 as stated: confirm, right, confirm, confirm and stepCount-1 = 5 further
\* confirms from Home end in TxReview with approved=true.
ApprovedAfterFiveConfirms ==
  navFlow = 4 + (Len(txSteps) - 1) => approved(screen)

\* C5 (amended): from Home, powered, confirm, right, confirm, confirm pass
\* through Apps{0}, Apps{1}, Address{apps[1]}, TxReview{step:0}; stepCount-1 = 5
\* further confirms reach step 5 not yet approved, and the stepCount-th = 6th
\* confirm ends in TxReview with approved=true.
NavigationScenario ==
  /\ navFlow = 1 => screen = Apps(0)
  /\ navFlow = 2 => screen = Apps(1)
  /\ navFlow = 3 => screen = Address(apps[2])
  /\ navFlow \in 4..9 => screen = TxReview(apps[2], navFlow - 4)
  /\ navFlow = 10 => screen = WithApproved(TxReview(apps[2], 5))

\* the scenario has just been run to the approval
NavigationApproved == navFlow = 10 /\ approved(screen)

\* C6: back from TxReview{app, step, approved}, powered, yields Address{app}
\* and nothing else of the review; a confirm on Address yields TxReview at
\* step 0, not approved.
BackFromTxReview ==
  [][/\ (powered /\ screen.id = "TX_REVIEW" /\ back)
          => screen' = Address(screen.app)
     /\ (powered /\ screen.id = "ADDRESS" /\ confirm)
          => (screen' = TxReview(screen.app, 0) /\ ~approved(screen'))]_vars

\* after the approval, back and confirm have just been taken
ReviewRestarted ==
  navFlow = Len(NavScript) /\ screen = TxReview(apps[2], 0)

\* the bounded field of a screen and its largest value
FieldName(s) ==
  IF s.id = "LOCK" THEN "cursor" ELSE IF s.id = "TX_REVIEW" THEN "step" ELSE "index"
Top(s) ==
  IF s.id = "LOCK" THEN 3 ELSE IF s.id = "APPS" THEN 2
  ELSE IF s.id = "TX_REVIEW" THEN 5 ELSE 3
OnlyFieldMoved(s, t, v) ==
  /\ DOMAIN t = DOMAIN s
  /\ \A f \in DOMAIN s : t[f] = IF f = FieldName(s) THEN v ELSE s[f]

\* C7: when powered, left / right on Apps, Settings, TxReview and Lock move the
\* bounded field by -1 / +1 inside its range and leave it unchanged at the
\* boundary; every other field of the screen and powered are unchanged.
LeftRightClamped ==
  [][(powered /\ screen.id \in {"APPS", "SETTINGS", "TX_REVIEW", "LOCK"}) =>
       LET v == screen[FieldName(screen)]
       IN  /\ left => /\ OnlyFieldMoved(screen, screen', IF v > 0 THEN v - 1 ELSE 0)
                      /\ powered' = powered
           /\ right => /\ OnlyFieldMoved(screen, screen',
                                         IF v < Top(screen) THEN v + 1 ELSE v)
                       /\ powered' = powered]_vars

\* left has moved an approved review back to its first step
ApprovedAtFirstStep ==
  screen.id = "TX_REVIEW" /\ approved(screen) /\ screen.step = 0

\* C8: when powered, back maps Apps and Settings to Home, Address to Apps{0}
\* whichever app was shown, TxReview to Address{app}, and leaves Splash, Lock
\* and Home unchanged; back never changes powered.
BackMapping ==
  [][back =>
       /\ powered' = powered
       /\ powered =>
            /\ screen.id \in {"APPS", "SETTINGS"} => screen' = Home
            /\ screen.id = "ADDRESS" => screen' = Apps(0)
            /\ screen.id = "TX_REVIEW" => screen' = Address(screen.app)
            /\ screen.id \in {"SPLASH", "LOCK", "HOME"} => screen' = screen]_vars

\* back has just been taken on Address{apps[2]}
BackResetIndex == backFlow = 5 /\ screen = Apps(0)

\* the pin as 4 slots of digits, -1 for an unset slot
DigitOf ==
  [c \in {DigitChars[i] : i \in 1..10} |-> (CHOOSE i \in 1..10 : DigitChars[i] = c) - 1]
SlotsOf(pin) == [i \in 1..4 |-> IF i <= Len(pin) THEN DigitOf[pin[i]] ELSE -1]
BumpSlot(slots, cursor) ==
  [slots EXCEPT ![cursor + 1] = ((IF @ = -1 THEN 0 ELSE @) + 1) % 10]
SetSlots(slots) ==
  LET kept == SelectSeq(slots, LAMBDA v : v # -1)
  IN  [i \in 1..Len(kept) |-> DigitChars[kept[i] + 1]]

\* C9: when powered, confirm on Lock with pin "1234" goes to Home; otherwise
\* the slot at cursor becomes (digit+1) mod 10, an unset slot counting as 0, the
\* new pin is the 4 slots without the unset ones, and cursor is unchanged.
LockConfirmIncrements ==
  [][(powered /\ screen.id = "LOCK" /\ confirm) =>
       IF screen.pin = PIN THEN screen' = Home
       ELSE screen' = Lock(SetSlots(BumpSlot(SlotsOf(screen.pin), screen.cursor)),
                           screen.cursor)]_vars

\* a digit has wrapped from 9 to 0
DigitWrapped ==
  screen.id = "LOCK" /\ \E i \in 1..Len(screen.pin) : screen.pin[i] = "0"

\* C10 as stated: once approved, left, right and confirm leave the TxReview
\* state unchanged.
ApprovedIsFrozen ==
  [][(powered /\ screen.id = "TX_REVIEW" /\ approved(screen)
        /\ (left \/ right \/ confirm)) => screen' = screen]_vars

\* C10 (amended): when powered, confirm on TxReview increments step if
\* step < stepCount-1 (app and approved unchanged) and otherwise sets
\* approved=true leaving step and app unchanged; once approved, approved stays
\* true and app unchanged until the screen is left, while left, right and
\* confirm may still move step.
TxReviewConfirm ==
  [][screen.id = "TX_REVIEW" =>
       /\ (powered /\ confirm) =>
            IF screen.step < 5
            THEN screen' = [screen EXCEPT !.step = screen.step + 1]
            ELSE /\ approved(screen')
                 /\ screen'.id = "TX_REVIEW"
                 /\ screen'.step = screen.step /\ screen'.app = screen.app
       /\ (approved(screen) /\ screen'.id = "TX_REVIEW")
            => (approved(screen') /\ screen'.app = screen.app)]_vars

\* an approved review whose step has been moved off the last one
ApprovedOffLastStep ==
  screen.id = "TX_REVIEW" /\ approved(screen) /\ screen.step = 4

\* C11: when powered, confirm on Settings{index} runs the action of entry index:
\* 0 sets toast "Max" and 1 sets toast "v1.0 demo", both leaving screen and
\* powered unchanged; 2 sets screen to Lock{pin:"", cursor:0}; 3 flips powered
\* and leaves screen at Settings{3}.
SettingsConfirm ==
  [][(powered /\ screen.id = "SETTINGS" /\ confirm) =>
       /\ screen.index = 0 =>
            (toast' = "Max" /\ screen' = screen /\ powered' = powered)
       /\ screen.index = 1 =>
            (toast' = "v1.0 demo" /\ screen' = screen /\ powered' = powered)
       /\ screen.index = 2 => screen' = Lock(<<>>, 0)
       /\ screen.index = 3 => (powered' = ~powered /\ screen' = Settings(3))]_vars

\* the About entry has been confirmed and its toast is shown on Settings{1}
AboutShown == screen = Settings(1) /\ toast = "v1.0 demo" /\ powered

\* C12: when the PIN-success timeout fires it changes the screen only if the
\* screen is still Lock with pin "1234"; after the user has navigated elsewhere
\* the firing does not move the screen to Home.
HomeTimeoutNotStale ==
  [][(homeTimeout /\ ~(screen.id = "LOCK" /\ screen.pin = PIN))
       => screen' = screen]_vars

\* C13: a clear scheduled by an earlier showToast never sets toast to null
\* while a later toast's timeout is still pending.
NewerToastNotClearedEarly ==
  [][(toastTimeout /\ toast # Null)
       => ~(\E i \in 1..Len(timers') : timers'[i] = "toast")]_vars

\* C14: with no input the screen becomes Lock{pin:"", cursor:0} by the splash
\* timeout; the splash timeout fires only while the screen is Splash, being
\* cancelled when Splash is left.
SplashToLock ==
  /\ [](noInput => (screen = Splash \/ screen = Lock(<<>>, 0)))
  /\ [](splashTimer => screen = Splash)
  /\ [][splashTimeout => (screen = Splash /\ screen' = Lock(<<>>, 0))]_vars
  /\ <>(~noInput \/ screen = Lock(<<>>, 0))

\* the splash timeout has fired with no input taken
LockedWithoutInput == noInput /\ screen = Lock(<<>>, 0) /\ ~splashTimer

\* ---- Address generator ------------------------------------------------------------
HexAlphabet == {Chars[i] : i \in 1..16}
IsHex(t) == \A i \in 1..Len(t) : t[i] \in HexAlphabet

\* C15: every call of pseudoHash returns exactly len characters, all of them
\* from 0-9a-f, also when h1++ passes 2^32-1 or h2-- passes below 0; and an
\* app's address is its literal prefix ("bc1", "0x", none) followed by 36, 40
\* and 44 such characters.
HashOutputIsHex ==
  hash.pc = "done" =>
    /\ hash.fn \in {"seed", "pseudoHash"} =>
         (Len(hash.out) = hash.len /\ IsHex(hash.out))
    /\ hash.fn \in {"btc", "eth", "sol"} =>
         LET pre == CASE hash.fn = "btc" -> <<"b", "c", "1">>
                      [] hash.fn = "eth" -> <<"0", "x">>
                      [] hash.fn = "sol" -> <<>>
             n == CASE hash.fn = "btc" -> 36
                    [] hash.fn = "eth" -> 40
                    [] hash.fn = "sol" -> 44
             gen == SubSeq(hash.out, Len(pre) + 1, Len(hash.out))
         IN  /\ SubSeq(hash.out, 1, Len(pre)) = pre
             /\ Len(gen) = n
             /\ IsHex(gen)

\* C16: an app's address is the same string every time it is evaluated,
\* whatever the power flag and the screen are and however many calls of
\* pseudoHash were made before, and the seed never changes once it is set.
AddressDeterministic ==
  /\ [](\A i \in 1..Len(apps) :
          (hash.pc = "done" /\ hash.fn = apps[i].key) => hash.out = derived[i].first)
  /\ [][hash.seed # <<>> => hash'.seed = hash.seed]_vars

\* the address of Solana was evaluated again, powered off and on Settings
AddressDerivedAgain ==
  /\ hash.pc = "done" /\ hash.fn = "sol" /\ derived[3].n = 2
  /\ derived[1].n > 0 /\ ~powered /\ screen = Settings(0)

\* ---- Totality of the inputs --------------------------------------------------------
\* an input taken on a screen where its handler has no branch
NoOpEvent ==
  \/ (left \/ right) /\ screen.id \in {"SPLASH", "HOME", "ADDRESS"}
  \/ confirm /\ screen.id = "SPLASH"
  \/ back /\ screen.id \in {"SPLASH", "LOCK", "HOME"}

\* C17: left, right, confirm, back and togglePower can be taken in every
\* reachable state (confirm as long as the timeouts it schedules fit in
\* MaxTimers), and left/right on Splash, Home and Address, confirm on Splash and
\* back on Splash, Lock and Home leave powered, screen, toast and the pending
\* timeouts unchanged.
NoOperationFails ==
  /\ [](ENABLED left /\ ENABLED right /\ ENABLED back /\ ENABLED togglePower)
  /\ [](Len(timers) + 2 <= MaxTimers => ENABLED confirm)
  /\ [][NoOpEvent => UNCHANGED <<powered, screen, toast, timers, splashTimer>>]_vars

\* the inputs without a handler were taken on Splash, Lock, Home and Address
NoOpInputsTaken ==
  noOpFlow = Len(NoOpScript) /\ powered /\ screen = Address(apps[1]) /\ toast = Null

\* ---- The lock screen ---------------------------------------------------------------
\* C18: once the screen has become Lock, the screens Home, Apps, Address and
\* TxReview are shown only after the Lock pin has equalled "1234"; in
\* particular the Settings button followed by back does not lead from a Lock
\* with another pin to Home.
LockNotBypassed ==
  locked => screen.id \notin {"HOME", "APPS", "ADDRESS", "TX_REVIEW"}

\* ---- Power off ---------------------------------------------------------------------
\* C19: while powered is false no event changes the screen: neither the four
\* inputs nor the splash timeout, the PIN-success timeout or the Settings
\* button.
ScreenFrozenWhileOff ==
  [][~powered => screen' = screen]_vars

\* ---- Shape of the pin ----------------------------------------------------------------
IsPin(pin) ==
  Len(pin) \in 0..4 /\ \A i \in 1..Len(pin) : pin[i] \in {DigitChars[k] : k \in 1..10}

\* the digit a confirm writes over slot k of pin (an unset slot counts as 0)
Bumped(pin, k) == DigitChars[(((IF k < Len(pin) THEN DigitOf[pin[k + 1]] ELSE 0) + 1) % 10) + 1]

\* newPin is pin with the incremented digit of slot c at slot k, nothing else changed
BumpedAt(pin, newPin, c, k) ==
  /\ Len(newPin) \in {Len(pin), Len(pin) + 1}
  /\ k < Len(newPin)
  /\ newPin[k + 1] = Bumped(pin, c)
  /\ \A i \in 1..Len(pin) : i # k + 1 => (i <= Len(newPin) /\ newPin[i] = pin[i])

LockConfirmStep == powered /\ screen.id = "LOCK" /\ screen.pin # PIN /\ confirm

\* C20 as stated: every Lock pin is 0 to 4 decimal digits, a confirm on Lock
\* never shortens the pin and lengthens it by at most one, and the
\* incremented digit sits at slot cursor of the new pin, every other slot
\* unchanged, also when cursor is greater than the length of the pin.
PinDigitAtCursor ==
  /\ [](screen.id = "LOCK" => IsPin(screen.pin))
  /\ [][LockConfirmStep =>
          BumpedAt(screen.pin, screen'.pin, screen.cursor, screen.cursor)]_vars

\* C20 amended: every Lock pin is 0 to 4 decimal digits, a confirm on Lock
\* never shortens the pin and lengthens it by at most one, and the
\* incremented digit sits at slot cursor when cursor is at most the length of
\* the pin, and otherwise is appended at the end of the pin (slot = length);
\* every other slot is unchanged.
PinDigitAtCursorOrEnd ==
  /\ [](screen.id = "LOCK" => IsPin(screen.pin))
  /\ [][LockConfirmStep =>
          BumpedAt(screen.pin, screen'.pin, screen.cursor,
                   Min(screen.cursor, Len(screen.pin)))]_vars

\* two confirms were taken at cursor 2 on an empty pin
ConfirmedBeyondEnd == gapFlow = Len(GapScript) /\ screen = Lock(<<"1", "1">>, 2)

\* ---- Approval of a transaction -------------------------------------------------------
\* approved turns from false (or absent) to true
Approving == ~approved(screen) /\ approved(screen')

\* C21 as stated: in every reachable state an approved TxReview is at step
\* stepCount-1, and approved becomes true only by a confirm taken at step
\* stepCount-1 while powered.
ApprovedOnlyAtLastStep ==
  /\ [](approved(screen) => (screen.id = "TX_REVIEW" /\ screen.step = Len(txSteps) - 1))
  /\ [][Approving =>
          (powered /\ confirm /\ screen.id = "TX_REVIEW"
             /\ screen.step = Len(txSteps) - 1)]_vars

\* C21 amended: approved becomes true only by a confirm taken on TxReview at
\* step stepCount-1 while powered, which leaves step and app as they are; an
\* approved screen is a TxReview with step in 0..stepCount-1, its step being
\* stepCount-1 right after the approval but free to be moved afterwards.
ApprovedOnlyByLastConfirm ==
  /\ [](approved(screen) =>
          (screen.id = "TX_REVIEW" /\ screen.step \in 0..(Len(txSteps) - 1)))
  /\ [][Approving =>
          (powered /\ confirm /\ screen.id = "TX_REVIEW"
             /\ screen.step = Len(txSteps) - 1
             /\ screen' = WithApproved(screen))]_vars

\* an approval of a Solana transaction, moved two steps back and powered off
ApprovedThenMoved ==
  /\ screen.id = "TX_REVIEW" /\ approved(screen)
  /\ screen.app = apps[3] /\ screen.step = 3 /\ ~powered

====
